---- MODULE Spec2Model ----
(***************************************************************************)
(* Model of Visual/train.py: the Double-DQN training loop, its milestone   *)
(* and final checkpoints, and the process recycle (save 'reload.ckpt',     *)
(* close the environment, os.execv with '--restore reload.ckpt').          *)
(*                                                                         *)
(* External collaborators (Agent, VisualEnvironment, QMetric, argparse,    *)
(* the file system) are modelled by what train.py observes of them: the    *)
(* values they return are drawn from small sets and every call may raise.  *)
(***************************************************************************)
EXTENDS Integers, Sequences, FiniteSets, TLC

VARIABLES
    argv,              \* sys.argv of the running process (argv[1] is the script)
    files,             \* the file system: path -> checkpoint contents or NoFile
    pc,                \* position of the running process in train.py
    raised_at,         \* where the exception that ended the run was raised
    run_params,        \* agent.run_params, loaded from --restore at construction
    restore, out_file, from_start,
    episodes, steps, reload_every, log_every, save_thresh, final_exp_it,
    it, ep_start, ep_i, scores, avg_scores, q_metrics, last_saved_score,
    q_metric,          \* q_metric.states, the probe states
    score, step_i, avg_score,
    eps,               \* the exploration rate of the last agent.act, times final_exp_it
    eval_ep, eval_step, \* evaluate_policy: rollouts finished, steps of the current one
    env_open,          \* the VisualEnvironment of this process is open
    samples,           \* number of probe sets define_Q_metric has sampled so far
    snapshot,          \* history: in-memory RunState when 'reload.ckpt' was last written
    saved_returns,     \* history: avg_score of every milestone save, in order
    recycles,          \* history: number of os.execv performed
    completed,         \* history: episodes completed since the operator started the run
    launched,          \* history: the command line the operator started the run with
    calls,             \* history: collaborator calls of this process's current episode
    it_begin,          \* history: it when this process's current episode began
    run_it,            \* history: increments of it since the operator started the run
    eval_calls,        \* history: collaborator calls of the evaluation rollout under way
    probes_used        \* history: the probe sets q_metric.evaluate() has been run on

config == <<episodes, steps, reload_every, log_every, save_thresh, final_exp_it>>
cli    == <<restore, out_file, from_start>>
hist   == <<scores, avg_scores, q_metrics>>
rollout == <<eval_ep, eval_step, eval_calls>>
ghost  == <<samples, snapshot, saved_returns, recycles, completed>>
trace  == <<launched, calls, it_begin, run_it, probes_used>>
vars   == <<argv, files, pc, raised_at, run_params, restore, out_file, from_start,
            episodes, steps, reload_every, log_every, save_thresh, final_exp_it,
            it, ep_start, ep_i, scores, avg_scores, q_metrics, last_saved_score,
            q_metric, score, step_i, avg_score, eps, eval_ep, eval_step, env_open,
            samples, snapshot, saved_returns, recycles, completed,
            launched, calls, it_begin, run_it, eval_calls, probes_used>>

---------------------------------------------------------------------------
(* Bounds of the model *)
MaxEpisodes == 2
MaxSteps == 2
MaxEvery == 2
MaxArgs == 7
MaxRecycles == 3
MaxExpIt == 3
EvalEpisodes == 2
EvalSteps == 2

(* Values returned by the external collaborators *)
Rewards == {1}
QValues == {1, 2}
EvalScores == {5, 6, 7}
SAVE_THRESH == 5

(* ini_eps and final_eps (line 70), in tenths *)
INI_EPS == 10
FINAL_EPS == 1

(* Tokens of the command line *)
None == "None"
Script == "train.py"
RESTORE == "--restore"
OUT_FILE == "--out_file"
OtherOpt == "--episodes=N"
RELOAD_CKPT == "reload.ckpt"
USER_CKPT == "user.ckpt"
DEFAULT_OUT == "dbl_dqn_agent.ckpt"
BEST_CKPT == "best.ckpt"
Flags == {RESTORE, OUT_FILE}
Options == Flags \cup {OtherOpt}
Paths == {RELOAD_CKPT, USER_CKPT, BEST_CKPT, DEFAULT_OUT}
Tokens == {RESTORE, OUT_FILE, OtherOpt, USER_CKPT}

NoFile == [absent |-> TRUE]
EmptyParams == [k \in {} |-> 0]

Range(s) == {s[i] : i \in 1..Len(s)}

RECURSIVE SumSeq(_)
SumSeq(s) == IF s = <<>> THEN 0 ELSE Head(s) + SumSeq(Tail(s))

---------------------------------------------------------------------------
(* lines 29-38, save(): the run_params of a milestone or final checkpoint *)
SaveParams(ep, i, avgs, scs, qms, lss) ==
    [episodes |-> ep, it |-> i, avg_scores |-> avgs, scores |-> scs,
     q_metrics |-> qms, last_saved_score |-> lss]

(* RecycleParams with from_start left at its default *)
RecycleParams_FromStart(ep, i, rst, avgs, lss, scs, states, qms) ==
    [episodes |-> ep, it |-> i, restore |-> rst, from_start |-> TRUE,
     reloading |-> TRUE, avg_scores |-> avgs, last_saved_score |-> lss,
     scores |-> scs, q_metric_states |-> states, q_metrics |-> qms]

(* RecycleParams with the index of the episode just run in 'episodes' *)
RecycleParams_StaleEpisode(ep, i, rst, avgs, lss, scs, states, qms) ==
    [episodes |-> ep - 1, it |-> i, restore |-> rst, from_start |-> FALSE,
     reloading |-> TRUE, avg_scores |-> avgs, last_saved_score |-> lss,
     scores |-> scs, q_metric_states |-> states, q_metrics |-> qms]

(* lines 173-184: the run_params of the recycle checkpoint *)
RecycleParams(ep, i, rst, avgs, lss, scs, states, qms) ==
    [episodes |-> ep, it |-> i, restore |-> rst, from_start |-> FALSE,
     reloading |-> TRUE, avg_scores |-> avgs, last_saved_score |-> lss,
     scores |-> scs, q_metric_states |-> states, q_metrics |-> qms]

(* A milestone checkpoint left by an earlier run, offered with --restore *)
UserCkpt == SaveParams(1, 1, <<<<1, 7>>>>, <<<<1, 1>>>>, <<<<1, 2>>>>, 0)

---------------------------------------------------------------------------
(* __main__: argparse over sys.argv[1:].  Every option takes one value; the *)
(* last occurrence of an option wins; a missing value or a stray positional *)
(* argument ends the process with a usage error.                            *)
RECURSIVE ParseFrom(_, _, _)
ParseFrom(a, i, acc) ==
    IF i > Len(a) THEN acc
    ELSE IF a[i] = OtherOpt THEN ParseFrom(a, i + 1, acc)
    ELSE IF a[i] \in Flags THEN
        IF i + 1 > Len(a) \/ a[i + 1] \in Options
        THEN [acc EXCEPT !.ok = FALSE]
        ELSE ParseFrom(a, i + 2,
                 IF a[i] = RESTORE THEN [acc EXCEPT !.restore = a[i + 1]]
                                   ELSE [acc EXCEPT !.out_file = a[i + 1]])
    ELSE [acc EXCEPT !.ok = FALSE]

parse_args(a) ==
    ParseFrom(a, 2, [ok |-> TRUE, restore |-> None, out_file |-> DEFAULT_OUT])

(* reload_process(): the argument vector handed to os.execv, or IndexError. *)
(* Python indices are 0-based: position i of the list is a[i + 1] here.     *)
reload_process(a) ==
    LET a1  == IF RESTORE \notin Range(a) THEN a \o <<RESTORE, None>> ELSE a
        idx == SumSeq([i \in 1..Len(a1) |-> IF a1[i] = RESTORE THEN i - 1 ELSE 0])
    IN  IF idx + 2 > Len(a1)
        THEN [ok |-> FALSE, argv |-> a1]
        ELSE [ok |-> TRUE, argv |-> [a1 EXCEPT ![idx + 2] = RELOAD_CKPT]]

(* The command lines argparse accepts, with at most n arguments *)
ArgVectors(n) ==
    {a \in {<<Script>> \o t : t \in UNION {[1..k -> Tokens] : k \in 0..n}} :
        parse_args(a).ok}

---------------------------------------------------------------------------
(* Decisions taken by train() *)

(* line 157: evaluation cadence *)
LogDue(ep, every) == (ep + 1) % every = 0

(* ShouldSave with the threshold compared by >= *)
ShouldSave_NonStrict(avg, thresh, last) == avg >= thresh /\ avg > last

(* line 165: milestone condition *)
ShouldSave(avg, thresh, last) == avg > thresh /\ avg > last

(* ReloadDue keyed off the episode index instead of the completed count *)
ReloadDue_OffByOne(ep, every) == ep % every = 0

(* line 171: recycle cadence *)
ReloadDue(ep, every) == (ep + 1) % every = 0

(* FinalSaveNeeded with the test inverted *)
FinalSaveNeeded_Inverted(fs, path) == fs[path] # NoFile

(* line 191: final save condition *)
FinalSaveNeeded(fs, path) == fs[path] = NoFile

(* lines 104-105: from_start as train() uses it.  rp is agent.run_params,   *)
(* fs the from_start argument.                                              *)
FromStart(rp, fs) ==
    IF "reloading" \in DOMAIN rp THEN rp.from_start ELSE fs

(* line 107 *)
Restoring(rp, rst, fs) == rst # None /\ ~FromStart(rp, fs)

(* RestoredState with the step counter not restored *)
RestoredState_ResetsIt(rp, rst, fs, probe) ==
    IF Restoring(rp, rst, fs)
        THEN [it |-> 0, ep_start |-> rp.episodes, scores |-> rp.scores,
              avg_scores |-> rp.avg_scores,
              last_saved_score |-> rp.last_saved_score,
              q_metric |-> rp.q_metric_states, q_metrics |-> rp.q_metrics]
        ELSE [it |-> 0, ep_start |-> 0, scores |-> <<>>, avg_scores |-> <<>>,
              last_saved_score |-> 0, q_metric |-> probe, q_metrics |-> <<>>]

(* RestoredState with the restored last_saved_score one lower than saved *)
RestoredState_LowersSaved(rp, rst, fs, probe) ==
    IF Restoring(rp, rst, fs)
        THEN [it |-> rp.it, ep_start |-> rp.episodes, scores |-> rp.scores,
              avg_scores |-> rp.avg_scores,
              last_saved_score |-> rp.last_saved_score - 1,
              q_metric |-> rp.q_metric_states, q_metrics |-> rp.q_metrics]
        ELSE [it |-> 0, ep_start |-> 0, scores |-> <<>>, avg_scores |-> <<>>,
              last_saved_score |-> 0, q_metric |-> probe, q_metrics |-> <<>>]

(* RestoredState with the episode loop restarted at episode 0 *)
RestoredState_RestartsEpisodes(rp, rst, fs, probe) ==
    IF Restoring(rp, rst, fs)
        THEN [it |-> rp.it, ep_start |-> 0, scores |-> rp.scores,
              avg_scores |-> rp.avg_scores,
              last_saved_score |-> rp.last_saved_score,
              q_metric |-> rp.q_metric_states, q_metrics |-> rp.q_metrics]
        ELSE [it |-> 0, ep_start |-> 0, scores |-> <<>>, avg_scores |-> <<>>,
              last_saved_score |-> 0, q_metric |-> probe, q_metrics |-> <<>>]

(* lines 107-123: the RunState train() starts its episode loop with; probe *)
(* is the probe set define_Q_metric would sample.                          *)
RestoredState(rp, rst, fs, probe) ==
    IF Restoring(rp, rst, fs)
        THEN [it |-> rp.it, ep_start |-> rp.episodes, scores |-> rp.scores,
              avg_scores |-> rp.avg_scores,
              last_saved_score |-> rp.last_saved_score,
              q_metric |-> rp.q_metric_states, q_metrics |-> rp.q_metrics]
        ELSE [it |-> 0, ep_start |-> 0, scores |-> <<>>, avg_scores |-> <<>>,
              last_saved_score |-> 0, q_metric |-> probe, q_metrics |-> <<>>]

(* lines 125-126 *)
RestoredRestore(rp, rst) ==
    IF "reloading" \in DOMAIN rp THEN rp.restore ELSE rst

(* The in-memory RunState of the running process *)
RunState ==
    [it |-> it, episodes |-> ep_i + 1, scores |-> scores,
     avg_scores |-> avg_scores, q_metrics |-> q_metrics,
     last_saved_score |-> last_saved_score, q_metric |-> q_metric]

NoSnapshot == [none |-> TRUE]

(* define_Q_metric (line 122) samples probe states from the environment:   *)
(* the k-th sampling of a run yields the probe set named k.                *)
NoProbes == 0
define_Q_metric(k) == k + 1

(* line 139: the exploration rate at global step i, times d (final_exp_it); *)
(* ini and fin are ini_eps and final_eps                                    *)
epsilon(i, ini, fin, d) ==
    LET linear == ini * d - (ini - fin) * i
    IN  IF fin * d >= linear THEN fin * d ELSE linear

(* The calls train() and evaluate_policy() make on the agent and the       *)
(* environment; env.step is recorded with the terminal signal it returned  *)
EnvStep(done) == IF done THEN "env.step:done" ELSE "env.step"

(* lines 134-135 *)
EpisodeStart == <<"agent.reset_episode", "env.reset">>

(* StepCalls with the loop left before the transition reaches the agent *)
StepCalls_BreakFirst(done) ==
    IF done THEN <<"agent.act", EnvStep(done)>>
            ELSE <<"agent.act", EnvStep(done), "agent.step">>

(* lines 142-144 *)
StepCalls(done) == <<"agent.act", EnvStep(done), "agent.step">>

(* line 45 *)
RolloutStart == <<"env.reset">>

(* lines 47-48 *)
EvalStepCalls(done) == <<"agent.act", EnvStep(done)>>

(* RolloutEnds with the terminal signal ignored *)
RolloutEnds_IgnoresDone(done, s) == s + 1 = EvalSteps

(* lines 46 and 50-51: the rollout ends after the step numbered s *)
RolloutEnds(done, s) == done \/ s + 1 = EvalSteps

(* Command lines of the runs explored in full *)
InitArgvs ==
    {<<Script>>,
     <<Script, RESTORE, USER_CKPT>>,
     <<Script, OUT_FILE, BEST_CKPT>>,
     <<Script, OUT_FILE, USER_CKPT, RESTORE, USER_CKPT>>}

---------------------------------------------------------------------------
(* A process image before train() has run *)
FreshProcess ==
    /\ run_params = EmptyParams
    /\ restore = None /\ out_file = DEFAULT_OUT /\ from_start = TRUE
    /\ it = 0 /\ ep_start = 0 /\ ep_i = 0
    /\ scores = <<>> /\ avg_scores = <<>> /\ q_metrics = <<>>
    /\ last_saved_score = 0 /\ q_metric = NoProbes
    /\ score = 0 /\ step_i = 0 /\ avg_score = 0
    /\ eps = 0 /\ eval_ep = 0 /\ eval_step = 0
    /\ env_open = FALSE

InitCommon ==
    /\ pc = "main" /\ raised_at = "none"
    /\ files = [p \in Paths |-> IF p = USER_CKPT THEN UserCkpt ELSE NoFile]
    /\ FreshProcess
    /\ save_thresh = SAVE_THRESH
    /\ samples = 0
    /\ snapshot = NoSnapshot /\ saved_returns = <<>> /\ recycles = 0
    /\ completed = 0
    /\ launched = argv
    /\ calls = <<>> /\ it_begin = 0 /\ run_it = 0
    /\ eval_calls = <<>> /\ probes_used = {}

(* Every configuration within the bounds, on four command lines *)
InitRuns ==
    /\ argv \in InitArgvs
    /\ InitCommon
    /\ episodes \in 0..MaxEpisodes
    /\ steps \in 1..MaxSteps
    /\ reload_every \in 1..MaxEvery
    /\ log_every \in 1..MaxEvery
    /\ final_exp_it = MaxExpIt

(* Two recycles of every command line of up to MaxArgs arguments *)
InitArgv ==
    /\ argv \in ArgVectors(MaxArgs)
    /\ InitCommon
    /\ episodes = 2 /\ steps = 1 /\ reload_every = 1 /\ log_every = 2
    /\ final_exp_it = MaxExpIt

(* Every --final_exp_it within the bound, on a run whose global step      *)
(* passes it                                                               *)
InitSchedule ==
    /\ argv = <<Script>>
    /\ InitCommon
    /\ episodes = 2 /\ steps = 2 /\ reload_every = 1 /\ log_every = 2
    /\ final_exp_it \in 1..MaxExpIt

Init == InitRuns \/ InitArgv \/ InitSchedule

---------------------------------------------------------------------------
(* lines 196-217 and 82-101: parse the command line, call train(), build   *)
(* the agent (which loads run_params from --restore) and the environment  *)
Main ==
    /\ pc = "main"
    /\ LET args == parse_args(argv)
       IN  IF ~args.ok
           THEN /\ pc' = "usage_error"
                /\ UNCHANGED <<raised_at, run_params, cli, env_open>>
           ELSE /\ restore' = args.restore
                /\ out_file' = args.out_file
                /\ from_start' = TRUE
                /\ IF args.restore # None /\ files[args.restore] = NoFile
                   THEN /\ pc' = "crashed" /\ raised_at' = "main"
                        /\ UNCHANGED <<run_params, env_open>>
                   ELSE /\ UNCHANGED raised_at
                        /\ run_params' = IF args.restore = None
                                         THEN EmptyParams
                                         ELSE files[args.restore]
                        /\ env_open' = TRUE
                        /\ pc' = "restore_params"
    /\ UNCHANGED <<argv, files, config, it, ep_start, ep_i, hist,
                   last_saved_score, q_metric, score, step_i, avg_score, ghost, eps, rollout, trace>>

(* lines 103-126 *)
RestoreParams ==
    /\ pc = "restore_params"
    /\ LET st == RestoredState(run_params, restore, from_start,
                                define_Q_metric(samples))
       IN    /\ it' = st.it
             /\ ep_start' = st.ep_start
             /\ ep_i' = st.ep_start
             /\ scores' = st.scores
             /\ avg_scores' = st.avg_scores
             /\ last_saved_score' = st.last_saved_score
             /\ q_metric' = st.q_metric
             /\ q_metrics' = st.q_metrics
             /\ samples' = IF Restoring(run_params, restore, from_start)
                           THEN samples ELSE samples + 1
    /\ from_start' = FromStart(run_params, from_start)
    /\ restore' = RestoredRestore(run_params, restore)
    /\ pc' = "loop"
    /\ UNCHANGED <<raised_at, argv, files, run_params, out_file, config,
                   score, step_i, avg_score, env_open,
                   snapshot, saved_returns, recycles, completed,
                   eps, rollout, trace>>

(* lines 132-135: the next episode starts *)
BeginEpisode ==
    /\ pc = "loop"
    /\ ep_i < episodes
    /\ score' = 0
    /\ step_i' = 0
    /\ calls' = EpisodeStart
    /\ it_begin' = it
    /\ pc' = "step"
    /\ UNCHANGED <<raised_at, argv, files, run_params, cli, config, it, ep_start, ep_i,
                   hist, last_saved_score, q_metric, avg_score, env_open, ghost,
                   eps, rollout, launched, run_it, probes_used>>

(* lines 136-149: one interaction with the environment *)
TrainStep ==
    /\ pc = "step"
    /\ \E reward \in Rewards, done \in BOOLEAN :
         /\ eps' = epsilon(it, INI_EPS, FINAL_EPS, final_exp_it)
         /\ calls' = calls \o StepCalls(done)
         /\ score' = score + reward
         /\ IF done
            THEN /\ pc' = "metrics"
                 /\ UNCHANGED <<it, step_i, run_it>>
            ELSE /\ it' = it + 1
                 /\ run_it' = run_it + 1
                 /\ step_i' = step_i + 1
                 /\ pc' = IF step_i + 1 = steps THEN "metrics" ELSE "step"
    /\ UNCHANGED <<raised_at, argv, files, run_params, cli, config, ep_start, ep_i,
                   hist, last_saved_score, q_metric, avg_score, env_open, ghost,
                   rollout, launched, it_begin, probes_used>>

(* lines 151-157 *)
UpdateMetrics ==
    /\ pc = "metrics"
    /\ \E q \in QValues : q_metrics' = Append(q_metrics, <<ep_i + 1, q>>)
    /\ scores' = Append(scores, <<ep_i + 1, score>>)
    /\ probes_used' = probes_used \cup {q_metric}
    /\ completed' = completed + 1
    /\ pc' = IF LogDue(ep_i, log_every) THEN "eval" ELSE "reload_check"
    /\ UNCHANGED <<raised_at, argv, files, run_params, cli, config, it,
                   ep_start, ep_i, avg_scores, last_saved_score, q_metric,
                   score, step_i, avg_score, env_open,
                   samples, snapshot, saved_returns, recycles,
                   eps, rollout, launched, calls, it_begin, run_it>>

(* lines 43-45: evaluate_policy starts its next rollout *)
EvalReset ==
    /\ pc = "eval"
    /\ eval_ep < EvalEpisodes
    /\ eval_step' = 0
    /\ eval_calls' = RolloutStart
    /\ pc' = "eval_step"
    /\ UNCHANGED <<raised_at, argv, files, run_params, cli, config, it, ep_start, ep_i,
                   hist, last_saved_score, q_metric, score, step_i, avg_score,
                   env_open, ghost, eps, eval_ep, trace>>

(* lines 46-52: one interaction of an evaluation rollout *)
EvalStep ==
    /\ pc = "eval_step"
    /\ \E done \in BOOLEAN :
         /\ eval_calls' = eval_calls \o EvalStepCalls(done)
         /\ IF RolloutEnds(done, eval_step)
            THEN /\ eval_ep' = eval_ep + 1
                 /\ pc' = "eval"
                 /\ UNCHANGED eval_step
            ELSE /\ eval_step' = eval_step + 1
                 /\ pc' = "eval_step"
                 /\ UNCHANGED eval_ep
    /\ UNCHANGED <<raised_at, argv, files, run_params, cli, config, it, ep_start, ep_i,
                   hist, last_saved_score, q_metric, score, step_i, avg_score,
                   env_open, ghost, eps, trace>>

(* lines 53 and 158-162: evaluate_policy returns the mean of the rollouts' *)
(* scores and train() records it                                           *)
Evaluate ==
    /\ pc = "eval"
    /\ eval_ep >= EvalEpisodes
    /\ \E r \in EvalScores :
         /\ avg_score' = r
         /\ avg_scores' = Append(avg_scores, <<ep_i + 1, r>>)
    /\ eval_ep' = 0 /\ eval_step' = 0 /\ eval_calls' = <<>>
    /\ pc' = "save_check"
    /\ UNCHANGED <<raised_at, argv, files, run_params, cli, config, it, ep_start, ep_i,
                   scores, q_metrics, last_saved_score, q_metric, score,
                   step_i, env_open, ghost, eps, trace>>

(* lines 165-168, condition true and the save succeeds *)
MilestoneSave ==
    /\ pc = "save_check"
    /\ ShouldSave(avg_score, save_thresh, last_saved_score)
    /\ files' = [files EXCEPT ![out_file] =
                     SaveParams(ep_i + 1, it, avg_scores, scores, q_metrics,
                                last_saved_score)]
    /\ saved_returns' = Append(saved_returns, avg_score)
    /\ pc' = "reload_check"
    /\ UNCHANGED <<raised_at, argv, run_params, cli, config, it, ep_start, ep_i, hist,
                   last_saved_score, q_metric, score, step_i, avg_score,
                   env_open, samples, snapshot, recycles, completed,
                   eps, rollout, trace>>

(* line 165, condition false *)
SkipSave ==
    /\ pc = "save_check"
    /\ ~ShouldSave(avg_score, save_thresh, last_saved_score)
    /\ pc' = "reload_check"
    /\ UNCHANGED <<raised_at, argv, files, run_params, cli, config, it, ep_start, ep_i,
                   hist, last_saved_score, q_metric, score, step_i, avg_score,
                   env_open, ghost, eps, rollout, trace>>

(* line 171, and the loop header when no recycle is due *)
ReloadCheck ==
    /\ pc = "reload_check"
    /\ IF ReloadDue(ep_i, reload_every)
       THEN pc' = "recycle_save" /\ UNCHANGED ep_i
       ELSE pc' = "loop" /\ ep_i' = ep_i + 1
    /\ UNCHANGED <<raised_at, argv, files, run_params, cli, config, it, ep_start,
                   hist, last_saved_score, q_metric, score, step_i, avg_score,
                   env_open, ghost, eps, rollout, trace>>

(* lines 173-185, the save succeeds *)
RecycleSave ==
    /\ pc = "recycle_save"
    /\ files' = [files EXCEPT ![RELOAD_CKPT] =
                     RecycleParams(ep_i + 1, it, restore, avg_scores,
                                   last_saved_score, scores, q_metric,
                                   q_metrics)]
    /\ snapshot' = RunState
    /\ pc' = "close"
    /\ UNCHANGED <<raised_at, argv, run_params, cli, config, it, ep_start, ep_i, hist,
                   last_saved_score, q_metric, score, step_i, avg_score,
                   env_open, samples, saved_returns, recycles, completed,
                   eps, rollout, trace>>

(* line 186 *)
EnvClose ==
    /\ pc = "close"
    /\ env_open' = FALSE
    /\ pc' = "reload_process"
    /\ UNCHANGED <<raised_at, argv, files, run_params, cli, config, it, ep_start, ep_i,
                   hist, last_saved_score, q_metric, score, step_i, avg_score,
                   ghost, eps, rollout, trace>>

(* lines 187 and 56-62: os.execv replaces the process image; nothing of   *)
(* the old process's memory survives.  An IndexError ends the run.  The   *)
(* exploration stops after MaxRecycles replacements.                       *)
ExecReload ==
    /\ pc = "reload_process"
    /\ recycles < MaxRecycles
    /\ LET r == reload_process(argv)
       IN  /\ argv' = r.argv
           /\ IF r.ok
              THEN /\ pc' = "main"
                   /\ UNCHANGED raised_at
                   /\ recycles' = recycles + 1
                   /\ run_params' = EmptyParams
                   /\ restore' = None
                   /\ out_file' = DEFAULT_OUT
                   /\ from_start' = TRUE
                   /\ it' = 0 /\ ep_start' = 0 /\ ep_i' = 0
                   /\ scores' = <<>> /\ avg_scores' = <<>> /\ q_metrics' = <<>>
                   /\ last_saved_score' = 0
                   /\ q_metric' = NoProbes
                   /\ score' = 0 /\ step_i' = 0 /\ avg_score' = 0
                   /\ eps' = 0 /\ eval_ep' = 0 /\ eval_step' = 0
                   /\ calls' = <<>> /\ it_begin' = 0
              ELSE /\ pc' = "crashed"
                   /\ raised_at' = "reload_process"
                   /\ UNCHANGED <<run_params, cli, it, ep_start, ep_i, hist,
                                  last_saved_score, q_metric, score, step_i,
                                  avg_score, recycles, eps, eval_ep, eval_step,
                                  calls, it_begin>>
    /\ UNCHANGED <<files, config, env_open, samples, snapshot, saved_returns,
                   completed, launched, run_it, eval_calls, probes_used>>

(* line 130: the episode range is exhausted *)
EndLoop ==
    /\ pc = "loop"
    /\ ep_i >= episodes
    /\ pc' = "final"
    /\ UNCHANGED <<raised_at, argv, files, run_params, cli, config, it, ep_start, ep_i,
                   hist, last_saved_score, q_metric, score, step_i, avg_score,
                   env_open, ghost, eps, rollout, trace>>

(* lines 189-194, the save (if any) succeeds *)
FinalSave ==
    /\ pc = "final"
    /\ files' = IF FinalSaveNeeded(files, out_file)
                THEN [files EXCEPT ![out_file] =
                         SaveParams(episodes, it, avg_scores, scores,
                                    q_metrics, last_saved_score)]
                ELSE files
    /\ pc' = "done"
    /\ UNCHANGED <<raised_at, argv, run_params, cli, config, it, ep_start, ep_i, hist,
                   last_saved_score, q_metric, score, step_i, avg_score,
                   env_open, ghost, eps, rollout, trace>>

(* SaveFault with a failed recycle save swallowed: the recycle goes on *)
SaveFault_Swallowed ==
    /\ \/ pc = "save_check" /\ ShouldSave(avg_score, save_thresh, last_saved_score)
       \/ pc = "recycle_save"
       \/ pc = "final" /\ FinalSaveNeeded(files, out_file)
    /\ IF pc = "recycle_save"
       THEN pc' = "close" /\ UNCHANGED raised_at
       ELSE pc' = "crashed" /\ raised_at' = pc
    /\ UNCHANGED <<argv, files, run_params, cli, config, it, ep_start, ep_i,
                   hist, last_saved_score, q_metric, score, step_i, avg_score,
                   env_open, ghost, eps, rollout, trace>>

(* agent.save raises (lines 39, 185): the file is left as it was and the  *)
(* exception ends the process                                             *)
SaveFault ==
    /\ \/ pc = "save_check" /\ ShouldSave(avg_score, save_thresh, last_saved_score)
       \/ pc = "recycle_save"
       \/ pc = "final" /\ FinalSaveNeeded(files, out_file)
    /\ pc' = "crashed"
    /\ raised_at' = pc
    /\ UNCHANGED <<argv, files, run_params, cli, config, it, ep_start, ep_i,
                   hist, last_saved_score, q_metric, score, step_i, avg_score,
                   env_open, ghost, eps, rollout, trace>>

(* env.reset, env.step or env.close raises (lines 135, 143, 45, 48, 186) *)
EnvFault ==
    /\ \/ pc = "loop" /\ ep_i < episodes
       \/ pc = "eval" /\ eval_ep < EvalEpisodes
       \/ pc \in {"step", "eval_step", "close"}
    /\ pc' = "crashed"
    /\ raised_at' = pc
    /\ UNCHANGED <<argv, files, run_params, cli, config, it, ep_start, ep_i,
                   hist, last_saved_score, q_metric, score, step_i, avg_score,
                   env_open, ghost, eps, rollout, trace>>

Next ==
    \/ Main \/ RestoreParams \/ BeginEpisode \/ TrainStep \/ UpdateMetrics
    \/ EvalReset \/ EvalStep \/ Evaluate \/ MilestoneSave \/ SkipSave \/ ReloadCheck \/ RecycleSave
    \/ EnvClose \/ ExecReload \/ EndLoop \/ FinalSave \/ SaveFault \/ EnvFault

Spec == Init /\ [][Next]_vars

(* Runs the operator starts without --restore, in which no call raises:   *)
(* the interpreter runs the one process of the run to its end, so a step  *)
(* that can be taken is taken                                              *)
InitFresh == InitRuns /\ argv = <<Script>>

NextNoFault ==
    \/ Main \/ RestoreParams \/ BeginEpisode \/ TrainStep \/ UpdateMetrics
    \/ EvalReset \/ EvalStep \/ Evaluate \/ MilestoneSave \/ SkipSave
    \/ ReloadCheck \/ RecycleSave \/ EnvClose \/ ExecReload \/ EndLoop
    \/ FinalSave

SpecNoFault == InitFresh /\ [][NextNoFault]_vars /\ WF_vars(NextNoFault)

---------------------------------------------------------------------------
(* Properties *)

Last(s) == s[Len(s)]
MaxOf(S) == CHOOSE x \in S : \A y \in S : y <= x

(* Positions at which the episode loop's variables are those of train() *)
InTrain ==
    pc \in {"loop", "step", "metrics", "eval", "eval_step", "save_check",
            "reload_check", "recycle_save", "close", "reload_process", "final",
            "done"}

(* A process started by os.execv with --restore reload.ckpt is about to  *)
(* run its first episode (or none)                                        *)
AfterRecycle ==
    /\ pc = "loop" /\ ep_i = ep_start
    /\ recycles > 0
    /\ parse_args(argv).restore = RELOAD_CKPT

(* C1: a process started by a recycle with --restore reload.ckpt enters its *)
(* episode loop with it, ep_start, the three histories, last_saved_score    *)
(* and the probe states equal to the values the old process held when it    *)
(* wrote the recycle checkpoint.                                            *)
C1_RecycleContinuity ==
    AfterRecycle =>
        /\ it = snapshot.it
        /\ ep_start = snapshot.episodes
        /\ scores = snapshot.scores
        /\ avg_scores = snapshot.avg_scores
        /\ q_metrics = snapshot.q_metrics
        /\ last_saved_score = snapshot.last_saved_score
        /\ q_metric = snapshot.q_metric

C1_Witness ==
    /\ AfterRecycle
    /\ it > 0 /\ ep_start > 0
    /\ scores # <<>> /\ avg_scores # <<>> /\ q_metrics # <<>>
    /\ q_metric # NoProbes

(* A process started by the operator with --restore naming a checkpoint   *)
(* written by save() is about to run its first episode (or none)          *)
OperatorResume ==
    /\ pc = "loop" /\ ep_i = ep_start
    /\ recycles = 0
    /\ parse_args(argv).restore # None
    /\ "reloading" \notin DOMAIN run_params

(* C2: started with --restore naming a checkpoint without the 'reloading'  *)
(* marker, train() enters its episode loop with global_step, episode_index, *)
(* the histories and last_saved_score stored in that checkpoint.            *)
C2_OperatorResume ==
    OperatorResume =>
        /\ it = run_params.it
        /\ ep_start = run_params.episodes
        /\ scores = run_params.scores
        /\ avg_scores = run_params.avg_scores
        /\ q_metrics = run_params.q_metrics
        /\ last_saved_score = run_params.last_saved_score

(* C3: once a milestone save has happened, last_saved_score is the highest *)
(* mean return that triggered one.                                         *)
C3_LastSavedScore ==
    (InTrain /\ saved_returns # <<>>) =>
        last_saved_score = MaxOf(Range(saved_returns))

(* C4: every milestone save is triggered by a mean return strictly greater *)
(* than the return of every earlier milestone save of the run.             *)
C4_BestSoFar ==
    \A i, j \in 1..Len(saved_returns) :
        i < j => saved_returns[i] < saved_returns[j]

(* The run_params save() writes from the current memory of the process *)
MilestoneContents ==
    [episodes |-> ep_i + 1, it |-> it, avg_scores |-> avg_scores,
     scores |-> scores, q_metrics |-> q_metrics,
     last_saved_score |-> last_saved_score]

MilestoneDue ==
    /\ avg_score > save_thresh
    /\ avg_score > last_saved_score

(* C5: within the episode loop out_file is written only at an evaluation   *)
(* point, and there it is written if and only if the freshly evaluated     *)
(* mean return exceeds both save_thresh and last_saved_score (and the save *)
(* does not fail); an evaluation follows a completed episode if and only   *)
(* if the completed-episode count is a multiple of log_every.              *)
C5_MilestoneCondition ==
    [][ /\ pc = "metrics" =>
              (pc' = "eval" <=> (ep_i + 1) % log_every = 0)
        /\ pc = "save_check" =>
              /\ Last(avg_scores) = <<ep_i + 1, avg_score>>
              /\ (ep_i + 1) % log_every = 0
              /\ pc' # "crashed" =>
                    /\ MilestoneDue <=>
                          saved_returns' = Append(saved_returns, avg_score)
                    /\ files' = IF MilestoneDue
                                THEN [files EXCEPT ![out_file] = MilestoneContents]
                                ELSE files
              /\ pc' = "crashed" => (MilestoneDue /\ files' = files)
        /\ saved_returns' # saved_returns => pc = "save_check"
        /\ (InTrain /\ pc \notin {"save_check", "recycle_save", "final"}) =>
              files' = files
        /\ pc = "recycle_save" => files'[out_file] = files[out_file]
                                    \/ out_file = RELOAD_CKPT
      ]_vars

C5_Witness ==
    /\ pc = "reload_check"
    /\ avg_scores # <<>> /\ Last(avg_scores) = <<ep_i + 1, avg_score>>
    /\ MilestoneDue
    /\ files[out_file] = MilestoneContents

(* C6: leaving the episode loop, train() writes out_file if and only if no *)
(* file exists there, with the run's final state whatever the scores; the  *)
(* loop is left with episode_index = episodes, and a run that reaches DONE *)
(* has a checkpoint at out_file.                                           *)
C6_FinalSave ==
    [][ /\ pc' = "final" => ep_i = episodes
        /\ (pc' = "done" /\ pc # "done") =>
              /\ pc = "final"
              /\ (files' # files) <=> (files[out_file] = NoFile)
              /\ files[out_file] = NoFile =>
                    files' = [files EXCEPT ![out_file] =
                                [episodes |-> episodes, it |-> it,
                                 avg_scores |-> avg_scores, scores |-> scores,
                                 q_metrics |-> q_metrics,
                                 last_saved_score |-> last_saved_score]]
              /\ files'[out_file] # NoFile
      ]_vars

(* The last episode triggered a recycle and the new process, which ran no *)
(* episode, wrote the only checkpoint of the run at out_file              *)
C6_Witness ==
    /\ pc = "done"
    /\ recycles > 0 /\ ep_start = episodes /\ episodes > 0
    /\ saved_returns = <<>>
    /\ out_file = DEFAULT_OUT
    /\ files[out_file] # NoFile

(* The recycle checkpoint train() writes from the current memory *)
RecycleContents ==
    [episodes |-> ep_i + 1, it |-> it, restore |-> restore,
     from_start |-> FALSE, reloading |-> TRUE, avg_scores |-> avg_scores,
     last_saved_score |-> last_saved_score, scores |-> scores,
     q_metric_states |-> q_metric, q_metrics |-> q_metrics]

(* C7: a process is replaced only from reload_process, which is entered   *)
(* only after env.close(), which is called only after 'reload.ckpt' has    *)
(* been written with the current RunState, reloading = True and            *)
(* from_start = False; nothing else runs in between.                       *)
C7_RecycleOrdering ==
    [][ /\ (pc' = "close" /\ pc # "close") =>
              /\ pc = "recycle_save"
              /\ files'[RELOAD_CKPT] = RecycleContents
              /\ env_open'
        /\ (pc' = "reload_process" /\ pc # "reload_process") =>
              /\ pc = "close"
              /\ files[RELOAD_CKPT] = RecycleContents
              /\ ~env_open'
              /\ files' = files
        /\ recycles' # recycles =>
              /\ pc = "reload_process" /\ pc' = "main"
              /\ files[RELOAD_CKPT] = RecycleContents
              /\ ~env_open
              /\ files' = files
        /\ pc \in {"recycle_save", "close", "reload_process"} =>
              UNCHANGED <<it, ep_i, scores, avg_scores, q_metrics,
                          last_saved_score, q_metric>>
              \/ pc' = "main"
      ]_vars

C7_Witness ==
    /\ pc = "main" /\ recycles > 0
    /\ files[RELOAD_CKPT] # NoFile
    /\ files[RELOAD_CKPT].reloading /\ ~files[RELOAD_CKPT].from_start
    /\ files[RELOAD_CKPT].it > 0
    /\ ~env_open

(* C8: when the recycle save fails ('reload.ckpt' is not written), the     *)
(* run ends there: the environment is not closed, the process is not       *)
(* replaced, and nothing further runs.                                     *)
C8_FailedRecycleSave ==
    [][ /\ (pc = "recycle_save" /\ files'[RELOAD_CKPT] # RecycleContents) =>
              /\ pc' = "crashed" /\ raised_at' = "recycle_save"
              /\ env_open' = env_open
              /\ recycles' = recycles
              /\ files' = files
        /\ pc = "crashed" => UNCHANGED vars
        /\ recycles' # recycles =>
              /\ files[RELOAD_CKPT] # NoFile
              /\ files[RELOAD_CKPT].episodes = ep_i + 1
              /\ files[RELOAD_CKPT].it = it
      ]_vars

C8_Witness ==
    /\ pc = "crashed" /\ raised_at = "recycle_save"
    /\ recycles > 0
    /\ files[RELOAD_CKPT] # NoFile
    /\ files[RELOAD_CKPT].episodes < ep_i + 1
    /\ env_open

(* C9: reload_process() replaces the process (it does not raise) with an   *)
(* argument vector that argparse accepts, whose --restore is               *)
(* 'reload.ckpt', and in which every argument not following a '--restore'  *)
(* is the one of the current process, at the same position.                *)
C9_ReloadArgv ==
    pc = "reload_process" =>
        LET a1 == IF RESTORE \in Range(argv) THEN argv
                  ELSE argv \o <<RESTORE, None>>
            r  == reload_process(argv)
        IN  /\ r.ok
            /\ Len(r.argv) = Len(a1)
            /\ \A i \in 1..Len(a1) :
                  IF i > 1 /\ a1[i - 1] = RESTORE
                  THEN r.argv[i] \in {a1[i], RELOAD_CKPT}
                  ELSE r.argv[i] = a1[i]
            /\ parse_args(r.argv).ok
            /\ parse_args(r.argv).restore = RELOAD_CKPT
            /\ parse_args(r.argv).out_file = parse_args(argv).out_file

(* C10: counting the episodes completed over the whole run, the recycle   *)
(* steps are entered only when the count is a positive multiple of         *)
(* reload_every, and everywhere else the number of process replacements so *)
(* far is the number of such multiples already passed: a recycle follows   *)
(* a completed episode if and only if the count is such a multiple.        *)
C10_RecycleCadence ==
    /\ pc \in {"recycle_save", "close", "reload_process"} =>
          /\ completed > 0
          /\ completed % reload_every = 0
          /\ recycles = completed \div reload_every - 1
    /\ pc \in {"main", "restore_params", "loop", "step", "metrics", "final",
               "done"} =>
          recycles = completed \div reload_every
    /\ pc \in {"eval", "eval_step", "save_check", "reload_check"} =>
          recycles = (completed - 1) \div reload_every

(* With reload_every = 2 the first episode was followed by no recycle and *)
(* the second by one                                                      *)
C10_Witness ==
    /\ pc = "loop" /\ ep_i = ep_start
    /\ recycles = 1 /\ reload_every = 2 /\ completed = 2

(* The number of episodes train() has recorded: ep_i names the episode   *)
(* being run until UpdateMetrics has appended its entries                 *)
EpisodeIndex ==
    IF pc \in {"eval", "eval_step", "save_check", "reload_check", "recycle_save",
               "close", "reload_process"}
    THEN ep_i + 1 ELSE ep_i

(* C11: global_step and episode_index never decrease: not from one step   *)
(* of a process to the next, and not from the values the old process held *)
(* at a recycle to the values the new process starts its loop with.       *)
C11_CountersMonotonic ==
    [][ /\ (InTrain /\ InTrain') =>
              /\ it' >= it
              /\ EpisodeIndex' >= EpisodeIndex
        /\ (pc = "restore_params" /\ pc' = "loop" /\ recycles > 0) =>
              /\ it' >= snapshot.it
              /\ EpisodeIndex' >= snapshot.episodes
      ]_vars

(* C12: the probe states are sampled once per run: define_Q_metric is      *)
(* called at most once since the operator started the run, a process       *)
(* started by a recycle holds the probe states the old process wrote to    *)
(* 'reload.ckpt', and every q_metric.evaluate() of the run is computed on  *)
(* the same probe set.                                                     *)
C12_ProbesSetOnce ==
    /\ samples <= 1
    /\ Cardinality(probes_used) <= 1
    /\ (InTrain /\ recycles > 0) => q_metric = snapshot.q_metric

(* C13: in a run whose out_file did not exist when the operator started it *)
(* (and is not the recycle checkpoint), a checkpoint exists at out_file if *)
(* and only if last_saved_score > 0 or the run has completed.              *)
C13_DurableCheckpoint ==
    (InTrain /\ out_file \notin {USER_CKPT, RELOAD_CKPT}) =>
        (files[out_file] # NoFile <=> (last_saved_score > 0 \/ pc = "done"))

(* Global steps up to which the schedule is compared *)
ScheduleSteps == 0..(MaxEpisodes * MaxSteps + MaxExpIt)

(* The schedule as a function of the global step: ini_eps at step 0,      *)
(* final_eps from step d on, never increasing                              *)
ScheduleShape(d) ==
    /\ epsilon(0, INI_EPS, FINAL_EPS, d) = INI_EPS * d
    /\ \A i \in ScheduleSteps :
          /\ i >= d => epsilon(i, INI_EPS, FINAL_EPS, d) = FINAL_EPS * d
          /\ epsilon(i + 1, INI_EPS, FINAL_EPS, d)
                <= epsilon(i, INI_EPS, FINAL_EPS, d)

(* ini_eps = 1.0, final_eps = 0.1, final_exp_it = 1000: 1.0, 0.55, 0.1 and *)
(* 0.1 at steps 0, 500, 1000 and 5000 (in tenths, times 1000)              *)
ScheduleScenario ==
    /\ epsilon(0, 10, 1, 1000) = 10000
    /\ epsilon(500, 10, 1, 1000) = 5500
    /\ epsilon(1000, 10, 1, 1000) = 1000
    /\ epsilon(5000, 10, 1, 1000) = 1000

(* C14: the exploration rate of every training step is the linear schedule *)
(* max(final_eps, ini_eps - (ini_eps - final_eps) * step / final_exp_it)   *)
(* evaluated at the global step; the schedule has the stated end points,   *)
(* shape and scenario values; and the step it is evaluated at is the one a *)
(* run without recycles would be at, so that recycles leave the sequence   *)
(* of rates unchanged.                                                     *)
C14_EpsilonSchedule ==
    [][ (pc = "step" /\ pc' \in {"step", "metrics"}) =>
            /\ eps' = epsilon(it, INI_EPS, FINAL_EPS, final_exp_it)
            /\ it = run_it
            /\ ScheduleShape(final_exp_it)
            /\ ScheduleScenario
      ]_vars

(* C15: last_saved_score never decreases: not from one step of a process   *)
(* to the next (evaluations and milestone saves included), and not from    *)
(* the value the old process held at a recycle to the value the new        *)
(* process starts its loop with.                                           *)
C15_LastSavedNeverDecreases ==
    [][ /\ (InTrain /\ InTrain') => last_saved_score' >= last_saved_score
        /\ (pc = "restore_params" /\ pc' = "loop" /\ recycles > 0) =>
              last_saved_score' >= snapshot.last_saved_score
      ]_vars

(* A process started by a recycle enters its loop after an evaluation and *)
(* a milestone save of the old process                                    *)
C15_Witness ==
    /\ pc = "loop" /\ ep_i = ep_start
    /\ recycles > 0
    /\ "reloading" \in DOMAIN run_params
    /\ avg_scores # <<>> /\ saved_returns # <<>>
    /\ snapshot.last_saved_score = last_saved_score

(* The number of env.step calls in a sequence of calls *)
EnvSteps(cs) ==
    Cardinality({i \in 1..Len(cs) : cs[i] \in {"env.step", "env.step:done"}})

(* C16: when a training episode has ended, it has increased since the     *)
(* episode began by the number of env.step calls of the episode, the one  *)
(* that returned the terminal signal included.                             *)
C16_StepPerInteraction ==
    pc = "metrics" => it - it_begin = EnvSteps(calls)

(* cs is the call sequence of an evaluation rollout of k interactions, of *)
(* which none but the last returned the terminal signal                    *)
RolloutOf(cs, k) ==
    /\ Len(cs) = 1 + 2 * k
    /\ cs[1] = "env.reset"
    /\ \A j \in 1..k :
          /\ cs[2 * j] = "agent.act"
          /\ cs[2 * j + 1] \in {"env.step", "env.step:done"}
          /\ j < k => cs[2 * j + 1] = "env.step"

(* C17: from the call of evaluate_policy to the recording of its result,  *)
(* it, the episode index, scores, q_metrics, last_saved_score and the     *)
(* calls made on the agent for training do not change and agent.step is   *)
(* not called; avg_scores changes only by the one entry appended when     *)
(* evaluate_policy has returned, which it does after exactly EvalEpisodes *)
(* rollouts; every rollout is one env.reset followed by at least one and  *)
(* at most EvalSteps interactions, and ends with the first interaction    *)
(* that returns the terminal signal.                                      *)
C17_EvaluateFrame ==
    [][ /\ (pc = "metrics" /\ pc' = "eval") => eval_ep' = 0
        /\ (pc \in {"eval", "eval_step"} /\ pc' # "crashed") =>
              /\ UNCHANGED <<it, ep_i, scores, q_metrics, last_saved_score,
                             calls>>
              /\ "agent.step" \notin Range(eval_calls')
              /\ pc' \in {"eval", "eval_step", "save_check"}
              /\ pc' = "save_check" =>
                    /\ eval_ep = EvalEpisodes
                    /\ avg_scores' = Append(avg_scores, <<ep_i + 1, avg_score'>>)
              /\ pc' # "save_check" => avg_scores' = avg_scores
              /\ (pc = "eval" /\ pc' = "eval_step") =>
                    /\ eval_ep < EvalEpisodes /\ eval_ep' = eval_ep
                    /\ RolloutOf(eval_calls', 0)
              /\ (pc = "eval_step" /\ pc' = "eval_step") =>
                    /\ eval_ep' = eval_ep
                    /\ \E k \in 1..(EvalSteps - 1) :
                          /\ RolloutOf(eval_calls', k)
                          /\ Last(eval_calls') = "env.step"
              /\ (pc = "eval_step" /\ pc' = "eval") =>
                    /\ eval_ep' = eval_ep + 1
                    /\ \E k \in 1..EvalSteps :
                          /\ RolloutOf(eval_calls', k)
                          /\ k < EvalSteps => Last(eval_calls') = "env.step:done"
      ]_vars

(* evaluate_policy is about to return: its last rollout ended on the      *)
(* terminal signal of its first interaction                                *)
C17_Witness ==
    /\ pc = "eval" /\ eval_ep = EvalEpisodes
    /\ eval_calls = <<"env.reset", "agent.act", "env.step:done">>
    /\ it > 0 /\ scores # <<>> /\ q_metrics # <<>>

(* cs is the call sequence of a training episode of k interactions: one   *)
(* agent.reset_episode, one env.reset, then per interaction agent.act,    *)
(* env.step and agent.step, none but the last returning the terminal      *)
(* signal                                                                  *)
EpisodeOf(cs, k) ==
    /\ Len(cs) = 2 + 3 * k
    /\ cs[1] = "agent.reset_episode"
    /\ cs[2] = "env.reset"
    /\ \A j \in 1..k :
          /\ cs[3 * j] = "agent.act"
          /\ cs[3 * j + 1] \in {"env.step", "env.step:done"}
          /\ cs[3 * j + 2] = "agent.step"
          /\ j < k => cs[3 * j + 1] = "env.step"

(* C18: a training episode is one agent.reset_episode and one env.reset   *)
(* followed by interactions, each an agent.act, an env.step and the       *)
(* agent.step that receives its transition; while the episode runs no     *)
(* interaction has returned the terminal signal and fewer than steps have  *)
(* been made; when it has ended it made at least one and at most steps     *)
(* interactions, and fewer than steps only if the last one returned the    *)
(* terminal signal.                                                        *)
C18_EpisodeShape ==
    /\ pc = "step" =>
          \E k \in 0..(steps - 1) :
              /\ EpisodeOf(calls, k)
              /\ k > 0 => calls[3 * k + 1] = "env.step"
    /\ pc = "metrics" =>
          \E k \in 1..steps :
              /\ EpisodeOf(calls, k)
              /\ k < steps => calls[3 * k + 1] = "env.step:done"

(* A later episode of a run has ended on the terminal signal of its first *)
(* interaction, with a step budget of two                                  *)
C18_Witness ==
    /\ pc = "metrics" /\ steps = 2 /\ ep_i > 0
    /\ calls = <<"agent.reset_episode", "env.reset",
                 "agent.act", "env.step:done", "agent.step">>

(* The operator started the run without --restore *)
StartedFresh == RESTORE \notin Range(launched)

(* C19: at every episode boundary of a run started without --restore,     *)
(* the episode index is the number of episodes completed since the run    *)
(* began, scores and q_metrics hold one entry per completed episode, with *)
(* the indices 1, 2, ..., episode index in this order, and avg_scores     *)
(* holds one entry per multiple of log_every up to the episode index, in  *)
(* increasing order.                                                       *)
C19_HistoryConsistency ==
    (StartedFresh /\ pc = "loop") =>
        /\ ep_i = completed
        /\ Len(scores) = ep_i
        /\ \A i \in 1..Len(scores) : scores[i][1] = i
        /\ Len(q_metrics) = ep_i
        /\ \A i \in 1..Len(q_metrics) : q_metrics[i][1] = i
        /\ Len(avg_scores) = ep_i \div log_every
        /\ \A j \in 1..Len(avg_scores) : avg_scores[j][1] = j * log_every

(* The second process of a run started without --restore is at its first *)
(* episode boundary, with two episodes and one evaluation behind it       *)
C19_Witness ==
    /\ StartedFresh
    /\ pc = "loop" /\ ep_i = ep_start
    /\ recycles = 1 /\ ep_i = 2 /\ log_every = 2
    /\ Len(scores) = 2 /\ Len(avg_scores) = 1

(* C20: a run started without --restore in which no call raises reaches   *)
(* DONE with the episode index equal to episodes, after exactly           *)
(* episodes \div reload_every process replacements and never more.        *)
C20_EventualCompletion ==
    /\ [](recycles <= episodes \div reload_every)
    /\ <>(/\ pc = "done"
          /\ ep_i = episodes
          /\ recycles = episodes \div reload_every)

(* A run of two episodes with a recycle after each has completed: the    *)
(* last process ran no episode                                            *)
C20_Witness ==
    /\ pc = "done"
    /\ episodes = 2 /\ reload_every = 1 /\ recycles = 2
    /\ ep_start = episodes /\ ep_i = episodes

====
